---- MODULE Spec2Model ----
(***************************************************************************)
(* Model of the KaiShing OAK report generator: the Streamlit entry point   *)
(* (kaishing_report_app.py), the command-line entry point                  *)
(* (send_report_enhanced.py) and the script of the interactive HTML        *)
(* report.  A DataFrame is a record [columns, rows]: the ordered column    *)
(* names and the rows, each row a function from column name to value.      *)
(* Time is in whole seconds since the epoch (UTC).                         *)
(***************************************************************************)
EXTENDS Integers, Sequences, FiniteSets, TLC

VARIABLES
    tables,            \* the DynamoDB tables: table name -> sequence of items
    pc,                \* position of the running entry point
    args,              \* the run's inputs: entry point, start and end date
    account_df,        \* main: account_df
    usage_df,          \* main: usage_df / usage_log_df (the table given to the filter)
    askai_df,          \* main: askai_df / ask_ai_df
    transcription_df,  \* main: transcription_df
    usage_filtered,    \* app: usage_filtered; cli: the filter's return value
    askai_filtered,    \* app: askai_filtered
    transcription_filtered, \* app: transcription_filtered
    valid_df,          \* cli: usage_log_valid_time_df
    figs,              \* the aggregates behind the figures
    summary_df,        \* app: summary_df
    html               \* the interactive HTML report: records and what its script plots

vars == <<tables, pc, args, account_df, usage_df, askai_df, transcription_df,
          usage_filtered, askai_filtered, transcription_filtered, valid_df,
          figs, summary_df, html>>

-----------------------------------------------------------------------------
(* Bounds of the model *)

MaxAccountRows == 2
MaxUsageRows == 2
MaxOtherRows == 1
MaxTokens == 3
MaxScenarioRows == 3

-----------------------------------------------------------------------------
(* Sequences *)

RECURSIVE Flatten(_)
Flatten(ss) == IF ss = <<>> THEN <<>> ELSE Head(ss) \o Flatten(Tail(ss))

Range(s) == {s[i] : i \in 1..Len(s)}

\* The subsequence of s at the indices satisfying keep (keep is a set of indices).
RECURSIVE Pick(_, _, _)
Pick(s, keep, i) ==
    IF i > Len(s) THEN <<>>
    ELSE (IF i \in keep THEN <<s[i]>> ELSE <<>>) \o Pick(s, keep, i + 1)

\* Sequences over S of length at most n.
SeqsUpTo(S, n) == UNION {[1..k -> S] : k \in 0..n}

-----------------------------------------------------------------------------
(* Text.  A string is a sequence of tokens of a fixed vocabulary; its      *)
(* characters are the concatenation of the tokens' characters.             *)

TokenChars(t) ==
    CASE t = "regenerate" -> <<"r","e","g","e","n","e","r","a","t","e">>
      [] t = "Regenerate" -> <<"R","e","g","e","n","e","r","a","t","e">>
      [] t = "generate"   -> <<"g","e","n","e","r","a","t","e">>
      [] t = "initial"    -> <<"i","n","i","t","i","a","l">>
      [] t = "transcript" -> <<"t","r","a","n","s","c","r","i","p","t">>
      [] t = "summary"    -> <<"s","u","m","m","a","r","y">>
      [] t = "Summary"    -> <<"S","u","m","m","a","r","y">>
      [] t = "summaries"  -> <<"s","u","m","m","a","r","i","e","s">>
      [] t = "note"       -> <<"n","o","t","e">>
      [] t = "action"     -> <<"a","c","t","i","o","n">>
      [] t = "login"      -> <<"l","o","g","i","n">>
      [] t = "d"          -> <<"d">>
      [] t = "s"          -> <<"s">>
      [] t = "_"          -> <<"_">>
      [] t = " "          -> <<" ">>

Chars(toks) == Flatten([i \in 1..Len(toks) |-> TokenChars(toks[i])])

\* str.lower() on one character (the vocabulary's upper-case letters).
LowerChar(c) == CASE c = "R" -> "r" [] c = "S" -> "s" [] OTHER -> c

Lower(s) == [i \in 1..Len(s) |-> LowerChar(s[i])]

\* The word w occurs in s starting at position i.
OccursAt(s, w, i) ==
    /\ i >= 1
    /\ i + Len(w) - 1 <= Len(s)
    /\ \A k \in 1..Len(w) : s[i + k - 1] = w[k]

\* re.search of the literal pattern w.
Search(s, w) == \E i \in 1..Len(s) : OccursAt(s, w, i)

\* re.search of the pattern a.*b : a, then anything, then b.
SearchThen(s, a, b) ==
    \E i \in 1..Len(s) : \E j \in 1..Len(s) :
        OccursAt(s, a, i) /\ j >= i + Len(a) /\ OccursAt(s, b, j)

-----------------------------------------------------------------------------
(* Values.  A text cell is [k |-> "str", toks] or the missing value        *)
(* [k |-> "nan"]; a createdAt cell is a number of epoch seconds ("num"), a *)
(* string ("str"), a normalized instant ("ts", n seconds since the epoch), *)
(* the missing instant ("nat") or NaN ("nan"); a count cell is <<n>> or    *)
(* the missing value <<>>; the other cells are strings, "NaN" when missing.*)

Str(toks) == [k |-> "str", toks |-> toks]
NaNText == [k |-> "nan", toks |-> <<>>]

Num(n) == [k |-> "num", n |-> n, s |-> ""]
DateStr(s) == [k |-> "str", n |-> 0, s |-> s]
Ts(n) == [k |-> "ts", n |-> n, s |-> ""]
NaT == [k |-> "nat", n |-> 0, s |-> ""]
NaNTime == [k |-> "nan", n |-> 0, s |-> ""]

Some(n) == <<n>>
NoCount == <<>>

NaNStr == "NaN"

\* The missing value of a column, by the column's type.
NaN(col) ==
    CASE col = "createdAt" -> NaNTime
      [] col = "usage_type" -> NaNText
      [] col \in {"account", "username", "subscription_level", "id",
                  "question", "site_code"} -> NaNStr
      [] OTHER -> NoCount

-----------------------------------------------------------------------------
(* DataFrames *)

EmptyDF == [columns |-> <<>>, rows |-> <<>>]

\* df.empty: no rows or no columns.
IsEmpty(df) == Len(df.rows) = 0 \/ Len(df.columns) = 0

HasCol(df, c) == c \in Range(df.columns)

\* The order in which the keys of the items become columns.
KeyOrder == <<"account", "username", "subscription_level", "createdAt",
              "usage_type", "id", "question">>

\* pd.DataFrame(items): the columns are the keys of the items, and an item
\* without a key holds the missing value in that column.
FromItems(items) ==
    LET keys == UNION {DOMAIN items[i] : i \in 1..Len(items)}
        cols == Pick(KeyOrder, {i \in 1..Len(KeyOrder) : KeyOrder[i] \in keys}, 1)
    IN  IF Len(items) = 0 THEN EmptyDF
        ELSE [columns |-> cols,
              rows |-> [i \in 1..Len(items) |->
                          [c \in keys |-> IF c \in DOMAIN items[i]
                                          THEN items[i][c] ELSE NaN(c)]]]

\* df[mask]: the rows at the indices in keep.
Rows(df, keep) == [columns |-> df.columns, rows |-> Pick(df.rows, keep, 1)]

\* df[c] = values: column c set row by row (added last when new).
SetCol(df, c, values) ==
    [columns |-> IF HasCol(df, c) THEN df.columns ELSE Append(df.columns, c),
     rows |-> [i \in 1..Len(df.rows) |->
                 [x \in DOMAIN df.rows[i] \cup {c} |->
                    IF x = c THEN values[i] ELSE df.rows[i][x]]]]

\* df[cols]: the projection on cols.
Project(df, cols) ==
    [columns |-> cols,
     rows |-> [i \in 1..Len(df.rows) |-> [c \in Range(cols) |-> df.rows[i][c]]]]

\* drop_duplicates(): the first of each group of equal rows, in order.
DropDuplicates(df) ==
    Rows(df, {i \in 1..Len(df.rows) : \A j \in 1..(i - 1) : df.rows[j] # df.rows[i]})

\* The order of the strings the model uses, as Python compares them.
SortedStrings ==
    <<"A", "B", "C", "NaN", "Vcity@kaishing.com.hk", "eddiecheuk@kaishing.com.hk",
      "kian.so@thinkcol.com", "ksitsupport@kaishing.com.hk", "unknown@nowhere.com",
      "vcity@kaishing.com.hk">>

StringRank(x) == CHOOSE i \in 1..Len(SortedStrings) : SortedStrings[i] = x

\* The elements of the set S of strings, in increasing order.
RECURSIVE SortStrings(_)
SortStrings(S) ==
    IF S = {} THEN <<>>
    ELSE LET m == CHOOSE x \in S : \A y \in S : StringRank(x) <= StringRank(y)
         IN  <<m>> \o SortStrings(S \ {m})

\* df.groupby('account').size().reset_index(name=name): one row per account
\* that has rows (a missing account forms no group), in the order of the keys.
GroupSize(df, name) ==
    LET keys == SortStrings({df.rows[i]["account"] : i \in 1..Len(df.rows)} \ {NaNStr})
    IN  [columns |-> <<"account", name>>,
         rows |-> [k \in 1..Len(keys) |->
                     [c \in {"account", name} |->
                        IF c = "account" THEN keys[k]
                        ELSE Some(Cardinality({i \in 1..Len(df.rows) :
                                                 df.rows[i]["account"] = keys[k]}))]]]

\* pd.DataFrame(columns=cols): the columns and no row.
NoRows(cols) == [columns |-> cols, rows |-> <<>>]

\* The merge as an inner join: the left rows without a right row are dropped.
MergeInner(left, right) ==
    LET extra == Pick(right.columns,
                      {i \in 1..Len(right.columns) : right.columns[i] # "account"}, 1)
        joined(l) ==
            LET m == Pick(right.rows,
                          {j \in 1..Len(right.rows) :
                              right.rows[j]["account"] = l["account"]}, 1)
            IN  [j \in 1..Len(m) |->
                   [c \in DOMAIN l \cup Range(extra) |->
                      IF c \in DOMAIN l THEN l[c] ELSE m[j][c]]]
    IN  [columns |-> left.columns \o extra,
         rows |-> Flatten([i \in 1..Len(left.rows) |-> joined(left.rows[i])])]

\* left.merge(right, on='account', how='left'): every left row, once per right
\* row of the same account, or once with the right's columns missing.
MergeLeft(left, right) ==
    LET extra == Pick(right.columns,
                      {i \in 1..Len(right.columns) : right.columns[i] # "account"}, 1)
        joined(l) ==
            LET m == Pick(right.rows,
                          {j \in 1..Len(right.rows) :
                              right.rows[j]["account"] = l["account"]}, 1)
            IN  IF Len(m) = 0
                THEN <<[c \in DOMAIN l \cup Range(extra) |->
                          IF c \in DOMAIN l THEN l[c] ELSE NaN(c)]>>
                ELSE [j \in 1..Len(m) |->
                        [c \in DOMAIN l \cup Range(extra) |->
                           IF c \in DOMAIN l THEN l[c] ELSE m[j][c]]]
    IN  [columns |-> left.columns \o extra,
         rows |-> Flatten([i \in 1..Len(left.rows) |-> joined(left.rows[i])])]

-----------------------------------------------------------------------------
(* Configuration of both entry points *)

users_to_exclude ==
    {"kian.so@thinkcol.com", "hetty.pun@thinkcol.com", "adawan@kaishing.com.hk"}

site_code_map ==
       "eddiecheuk@kaishing.com.hk" :> "HQ-IT"
    @@ "ksitsupport@kaishing.com.hk" :> "HQ-IT"
    @@ "aegeancoast@kaishing.com.hk" :> "AC"
    @@ "dacychung@kaishing.com.hk" :> "ICC"
    @@ "lewislam@kaishing.com.hk" :> "ICC"
    @@ "Vcity@kaishing.com.hk" :> "VCY"
    @@ "yohomidtown@kaishing.com.hk" :> "YMT"
    @@ "leightonhill@supreme-mgt.com.hk" :> "LH"
    @@ "riva@supreme-mgt.com.hk" :> "RV"
    @@ "tpmm@kaishing.com.hk" :> "TPMM"
    @@ "palmsprings@kaishing.com.hk" :> "PS"
    @@ "castello@kaishing.com.hk" :> "CAS"
    @@ "newtown3@kaishing.com.hk" :> "NTP3R"
    @@ "millencity@kaishing.com.hk" :> "M388"
    @@ "mounthaven@kaishing.com.hk" :> "MH"
    @@ "victorwong@supreme-mgt.com.hk" :> "UMA"
    @@ "epc@kaishing.com.hk" :> "EPC-C"
    @@ "millencity5@kaishing.com.hk" :> "MMC418"
    @@ "apm@kaishing.com.hk" :> "MMC418"
    @@ "taipocentre@kaishing.com.hk" :> "TPC"
    @@ "parkisland@kaishing.com.hk" :> "PI"
    @@ "thewings3a@kaishing.com.hk" :> "TW3A"
    @@ "pacificview@kaishing.com.hk" :> "PV"
    @@ "cffy@chifufayuen.hk" :> "CFFY"
    @@ "98hms@kaishing.com.hk" :> "98HMS"
    @@ "stanford@kaishing.com.hk" :> "SFV"
    @@ "lepalais@kaishing.com.hk" :> "LPS"
    @@ "avignon@kaishing.com.hk" :> "AGN"
    @@ "pmt@kaishing.com.hk" :> "PMT"
    @@ "mountregency@kaishing.com.hk" :> "MR"
    @@ "somerset@kaishing.com.hk" :> "SOM"
    @@ "emilyho@kaishing.com.hk" :> "NTPI"
    @@ "garychan@kaishing.com.hk" :> "CAC"
    @@ "dynastycourt@kaishing.com.hk" :> "DC"
    @@ "eastpoint@kaishing.com.hk" :> "EPCR"
    @@ "grandyoho@kaishing.com.hk" :> "GYR"
    @@ "hillsborough@kaishing.com.hk" :> "HC"
    @@ "kodakhouse11@kaishing.com.hk" :> "KHII"
    @@ "oceanwings@kaishing.com.hk" :> "OW"
    @@ "pokfulam@kaishing.com.hk" :> "PG"
    @@ "royalpalms@kaishing.com.hk" :> "RP"
    @@ "concerto@kaishing.com.hk" :> "VC"
    @@ "brownieyu@kaishing.com.hk" :> "AFFC"
    @@ "hlypm@kaishing.com.hk" :> "HLY"
    @@ "thewings2@kaishing.com.hk" :> "TW2"
    @@ "mayfair@kaishing.com.hk" :> "MG"
    @@ "affc@kaishing.com.hk" :> "AFFC"
    @@ "villabythepark@kaishing.com.hk" :> "VP"
    @@ "celestecourt@kaishing.com.hk" :> "CC"
    @@ "ls@kaishing.com.hk" :> "LS"
    @@ "suntuenmun@kaishing.com.hk" :> "STMC"
    @@ "lagrove@kaishing.com.hk" :> "LG"
    @@ "yohowest@wespire.com.hk" :> "YOW"
    @@ "yohohouse@wespire.com.hk" :> "YOW"
    @@ "kennedy38@supreme-mgt.com.hk" :> "K38"
    @@ "homantinhill@supreme-mgt.com.hk" :> "HMT"
    @@ "landmarkn@kaishing.com.hk" :> "LN"
    @@ "metroplaza@kaishing.com.hk" :> "MP"
    @@ "yohomall-1@kaishing.com.hk" :> "YM1"
    @@ "ylplaza@kaishing.com.hk" :> "YLP"
    @@ "kingspark@kaishing.com.hk" :> "KPV"
    @@ "candicewong@kaishing.com.hk" :> "KCC"
    @@ "rhapsody@kaishing.com.hk" :> "VR"
    @@ "lgar@kaishing.com.hk" :> "LGAR"
    @@ "rseacrest@kaishing.com.hk" :> "RSC"
    @@ "yukpocourt@kaishing.com.hk" :> "YPC"
    @@ "villaathena@kaishing.com.hk" :> "VA"
    @@ "vincenttse@supreme-mgt.com.hk" :> "VY"

\* str.lower() on an account of the model (the other keys are lower case).
FoldCase(a) == IF a = "Vcity@kaishing.com.hk" THEN "vcity@kaishing.com.hk" ELSE a

\* SiteOf with the keys compared without regard to letter case.
SiteOfFolded(account) ==
    IF \E k \in DOMAIN site_code_map : FoldCase(k) = FoldCase(account)
    THEN site_code_map[CHOOSE k \in DOMAIN site_code_map : FoldCase(k) = FoldCase(account)]
    ELSE "Unknown"

\* df['account'].map(site_code_map).fillna('Unknown') on one account.
SiteOf(account) ==
    IF account \in DOMAIN site_code_map THEN site_code_map[account] ELSE "Unknown"

\* df[~df['account'].isin(users_to_exclude)].copy()
Exclude(df) ==
    Rows(df, {i \in 1..Len(df.rows) : df.rows[i]["account"] \notin users_to_exclude})

\* df['site_code'] = df['account'].map(site_code_map).fillna('Unknown')
WithSiteCode(df) ==
    SetCol(df, "site_code", [i \in 1..Len(df.rows) |-> SiteOf(df.rows[i]["account"])])

-----------------------------------------------------------------------------
(* Time *)

SecondsPerDay == 86400
DaysPerWeek == 7
\* Asia/Hong_Kong is UTC+8 all year.
HKTOffset == 28800

\* The strings a createdAt cell may hold, and what the parsers make of them.
\* "2024-01-03 10:00:00" is the instant 1704276000, as is the numeric string.
ParseNumber(s) == IF s = "1704276000" THEN <<1704276000>> ELSE <<>>

ParseDate(s) == IF s = "2024-01-03 10:00:00" THEN <<1704276000>> ELSE <<>>

\* A number as pd.to_numeric gives it: an integer, NaN, or an integer past
\* the largest instant a Timestamp holds when read as seconds ("huge").
Int32(n) == [k |-> "int", n |-> n]
NaNNumber == [k |-> "nan", n |-> 0]
Huge == [k |-> "huge", n |-> 0]

\* The nanoseconds in a second, and the latest instant (seconds) whose
\* nanoseconds the model reads back as seconds; every later instant's
\* nanoseconds are past the largest Timestamp.
NanosPerSecond == 1000000000
MaxRereadSeconds == 2

\* pd.to_numeric(column, errors='coerce') on one cell.  A datetime cell gives
\* its nanoseconds since the epoch, NaT the smallest integer.
to_numeric(v) ==
    CASE v.k = "num" -> Int32(v.n)
      [] v.k = "str" -> IF ParseNumber(v.s) = <<>> THEN NaNNumber
                        ELSE Int32(ParseNumber(v.s)[1])
      [] v.k = "ts"  -> IF v.n <= MaxRereadSeconds THEN Int32(v.n * NanosPerSecond)
                        ELSE Huge
      [] v.k = "nat" -> Huge
      [] OTHER -> NaNNumber

\* pd.to_datetime(numeric, unit='s', errors='coerce') on one cell.
from_epoch_seconds(x) == IF x.k = "int" THEN Ts(x.n) ELSE NaT

\* numeric = pd.to_numeric(df[date_col], errors='coerce')
\* dt = pd.to_datetime(numeric, unit='s', errors='coerce').dt.tz_localize('UTC')
normalized_column(df) ==
    [i \in 1..Len(df.rows) |-> from_epoch_seconds(to_numeric(df.rows[i]["createdAt"]))]

\* The mask with the upper bound left out of the range.
app_mask_open_end(v, start_date, end_date) ==
    v.k = "ts" /\ v.n >= start_date /\ v.n < end_date

\* mask = (df[date_col] >= start_date) & (df[date_col] <= end_date) on one
\* cell; NaT compares false.
app_mask(v, start_date, end_date) ==
    v.k = "ts" /\ v.n >= start_date /\ v.n <= end_date

\* filter_df_by_range without its first test: a table without the column
\* comes back without its rows.
filter_df_by_range_unguarded(df, start_date, end_date) ==
    IF IsEmpty(df) \/ ~HasCol(df, "createdAt") THEN Rows(df, {})
    ELSE LET copy == SetCol(df, "createdAt", normalized_column(df))
         IN  Rows(copy, {i \in 1..Len(copy.rows) :
                            app_mask(copy.rows[i]["createdAt"], start_date, end_date)})

\* filter_df_by_range(df, start_date, end_date)
filter_df_by_range(df, start_date, end_date) ==
    IF IsEmpty(df) \/ ~HasCol(df, "createdAt") THEN df
    ELSE LET copy == SetCol(df, "createdAt", normalized_column(df))
         IN  Rows(copy, {i \in 1..Len(copy.rows) :
                            app_mask(copy.rows[i]["createdAt"], start_date, end_date)})

\* df[date_column].dtype in ['int64', 'float64']: every cell a number or NaN.
numeric_dtype(df) ==
    \A i \in 1..Len(df.rows) : df.rows[i]["createdAt"].k \in {"num", "nan"}

\* pd.to_datetime(column, errors='coerce') on one cell of an object column.  A
\* string goes through the date parser.  A number in an object column is not
\* read as seconds: it is nanoseconds since the epoch (ints = "ns"), or, where
\* the format guessed from the strings is applied to it, missing (ints = "nat").
to_datetime_object(v, ints) ==
    CASE v.k = "str" -> IF ParseDate(v.s) = <<>> THEN NaT ELSE Ts(ParseDate(v.s)[1])
      [] v.k = "num" -> IF ints = "ns" THEN Ts(v.n \div NanosPerSecond) ELSE NaT
      [] v.k = "ts"  -> v
      [] OTHER -> NaT

\* The createdAt column as filter_data_by_time_period rewrites it, in place.
cli_converted(df, ints) ==
    SetCol(df, "createdAt",
           [i \in 1..Len(df.rows) |->
              LET v == df.rows[i]["createdAt"]
              IN  IF numeric_dtype(df)
                  THEN (IF v.k = "num" THEN Ts(v.n) ELSE NaT)
                  ELSE to_datetime_object(v, ints)])

\* mask = (df[date_column] >= start_date) & (df[date_column] <= end_date)
cli_mask(v, start_date, end_date) ==
    v.k = "ts" /\ v.n >= start_date /\ v.n <= end_date

\* filter_data_by_time_period(df, start_date, end_date): the caller's table
\* after the call, and the table returned.
filter_data_by_time_period(df, start_date, end_date, ints) ==
    IF IsEmpty(df) \/ ~HasCol(df, "createdAt") THEN [table |-> df, result |-> df]
    ELSE LET conv == cli_converted(df, ints)
         IN  [table |-> conv,
              result |-> Rows(conv, {i \in 1..Len(conv.rows) :
                            cli_mask(conv.rows[i]["createdAt"], start_date, end_date)})]

-----------------------------------------------------------------------------
(* build_summary_df and its counters *)

\* Series.str.contains(w, case=False, na=False) on one cell.
Contains(v, w) == v.k = "str" /\ Search(Lower(Chars(v.toks)), TokenChars(w))

\* Series.str.contains('a.*b', case=False, na=False) on one cell.
ContainsThen(v, a, b) ==
    v.k = "str" /\ SearchThen(Lower(Chars(v.toks)), TokenChars(a), TokenChars(b))

\* regen_transcript_patterns with the two words in either order.
regen_transcript_any_order(v) == Contains(v, "regenerate") /\ Contains(v, "transcript")

regen_transcript_patterns(v) == ContainsThen(v, "regenerate", "transcript")

\* init_sum_patterns without the guard against 'regenerate'.
init_sum_unguarded(v) ==
    ContainsThen(v, "initial", "summary") \/ ContainsThen(v, "generate", "summary")

init_sum_patterns(v) ==
    /\ ContainsThen(v, "initial", "summary") \/ ContainsThen(v, "generate", "summary")
    /\ ~Contains(v, "regenerate")

regen_sum_patterns(v) == ContainsThen(v, "regenerate", "summary")

\* gen_notes_patterns without the guard against 'regenerate'.
gen_notes_unguarded(v) ==
    ContainsThen(v, "generate", "note") \/ ContainsThen(v, "initial", "note")

gen_notes_patterns(v) ==
    /\ ContainsThen(v, "generate", "note") \/ ContainsThen(v, "initial", "note")
    /\ ~Contains(v, "regenerate")

regen_notes_patterns(v) == ContainsThen(v, "regenerate", "note")

\* The names of the label-based count columns, in the order they are merged.
LabelColumns ==
    <<"regenerated transcripts", "initial summaries", "regenerated summaries",
      "generated notes", "regenerated notes">>

\* The predicate behind each label-based column.
Selects(name, v) ==
    CASE name = "regenerated transcripts" -> regen_transcript_patterns(v)
      [] name = "initial summaries"       -> init_sum_patterns(v)
      [] name = "regenerated summaries"   -> regen_sum_patterns(v)
      [] name = "generated notes"         -> gen_notes_patterns(v)
      [] name = "regenerated notes"       -> regen_notes_patterns(v)

\* One of the five blocks "if not usage_df.empty and 'usage_type' in columns".
label_counter(usage, name) ==
    IF ~IsEmpty(usage) /\ HasCol(usage, "usage_type")
    THEN LET sel == Rows(usage, {i \in 1..Len(usage.rows) :
                                    Selects(name, usage.rows[i]["usage_type"])})
         IN  IF ~IsEmpty(sel) THEN GroupSize(sel, name)
             ELSE NoRows(<<"account", name>>)
    ELSE NoRows(<<"account", name>>)

\* counter_from_transcription counting an account once, however many rows it has.
counter_by_presence(df, name) ==
    IF IsEmpty(df) THEN NoRows(<<"account", name>>)
    ELSE IF ~HasCol(df, "account") THEN NoRows(<<"account", name>>)
    ELSE GroupSize(DropDuplicates(Project(df, <<"account">>)), name)

counter_from_transcription(df, name) ==
    IF IsEmpty(df) THEN NoRows(<<"account", name>>)
    ELSE IF ~HasCol(df, "account") THEN NoRows(<<"account", name>>)
    ELSE GroupSize(df, name)

counter_from_askai(df, name) ==
    IF IsEmpty(df) THEN NoRows(<<"account", name>>) ELSE GroupSize(df, name)

\* fillna_int without the fillna(0).
fillna_skipped(cell) == cell

\* out[col].fillna(0).astype(int) on one cell.
fillna_int(cell) == IF cell = NoCount THEN Some(0) ELSE cell

\* for col in out.columns: if col != 'account': out[col] = fillna(0).astype(int)
fill_counts(out) ==
    [columns |-> out.columns,
     rows |-> [i \in 1..Len(out.rows) |->
                 [c \in DOMAIN out.rows[i] |->
                    IF c = "account" THEN out.rows[i][c]
                    ELSE fillna_int(out.rows[i][c])]]]

\* The table the usernames are merged from.
username_table(acc_df) == Project(acc_df, <<"account", "username">>)

\* if 'username' in acc_df.columns: merge the usernames, account and username first.
add_username(out, acc_df) ==
    IF HasCol(acc_df, "username")
    THEN LET m == MergeLeft(out, username_table(acc_df))
         IN  [columns |-> <<"account", "username">> \o
                          Pick(m.columns, {i \in 1..Len(m.columns) :
                                  m.columns[i] \notin {"account", "username"}}, 1),
              rows |-> m.rows]
    ELSE out

\* accounts = acc_df[['account']].drop_duplicates()
roster(acc_df) == DropDuplicates(Project(acc_df, <<"account">>))

build_summary_df(acc_df, usage, transcription, ask_df) ==
    IF IsEmpty(acc_df) THEN EmptyDF
    ELSE LET accounts == roster(acc_df)
             gen_trans == counter_from_transcription(transcription, "generated transcripts")
             m1 == MergeLeft(accounts, gen_trans)
             m2 == MergeLeft(m1, label_counter(usage, LabelColumns[1]))
             m3 == MergeLeft(m2, label_counter(usage, LabelColumns[2]))
             m4 == MergeLeft(m3, label_counter(usage, LabelColumns[3]))
             m5 == MergeLeft(m4, label_counter(usage, LabelColumns[4]))
             m6 == MergeLeft(m5, label_counter(usage, LabelColumns[5]))
             m7 == MergeLeft(m6, counter_from_askai(ask_df, "askai questions"))
         IN  add_username(fill_counts(m7), acc_df)

-----------------------------------------------------------------------------
(* Weekly active users *)

\* The Hong Kong calendar day of an instant, in days since 1970-01-01.
LocalDay(t) == (t + HKTOffset) \div SecondsPerDay

\* The weekday of a calendar day, Monday = 0 (1970-01-01 was a Thursday).
Weekday(day) == (day + 3) % DaysPerWeek

\* pd.Grouper(freq='W-Mon'): weekly bins that END on a Monday, closed and
\* labelled on the right, the edge moved to the last moment of that Monday.
\* The label of an instant's bin is the Monday on or after its local day.
WeekLabel(t) ==
    LET day == LocalDay(t)
    IN  day + ((DaysPerWeek - Weekday(day)) % DaysPerWeek)

\* The labels from lo to hi, a week apart.
RECURSIVE WeekRange(_, _)
WeekRange(lo, hi) == IF lo > hi THEN <<>> ELSE <<lo>> \o WeekRange(lo + DaysPerWeek, hi)

\* The number of rows instead of the number of distinct accounts.
count_rows(df, group) == Cardinality(group)

\* Series.nunique() over the rows at the indices in group: missing accounts
\* do not count.
nunique(df, group) ==
    Cardinality({df.rows[i]["account"] : i \in group} \ {NaNStr})

\* df.groupby(pd.Grouper(key='createdAt_HKT', freq='W-Mon'))['account']
\*   .nunique().reset_index(): one row per bin from the first instant's bin to
\* the last instant's; rows without an instant are in no bin.
wau_df(df) ==
    LET timed == {i \in 1..Len(df.rows) : df.rows[i]["createdAt"].k = "ts"}
        labels == {WeekLabel(df.rows[i]["createdAt"].n) : i \in timed}
        lo == CHOOSE w \in labels : \A x \in labels : w <= x
        hi == CHOOSE w \in labels : \A x \in labels : w >= x
        weeks == IF labels = {} THEN <<>> ELSE WeekRange(lo, hi)
    IN  [k \in 1..Len(weeks) |->
           [week |-> weeks[k],
            users |-> nunique(df, {i \in timed :
                          WeekLabel(df.rows[i]["createdAt"].n) = weeks[k]})]]

\* The elements of a set of integers, in increasing order.
RECURSIVE SortInts(_)
SortInts(S) ==
    IF S = {} THEN <<>>
    ELSE LET m == CHOOSE x \in S : \A y \in S : x <= y
         IN  <<m>> \o SortInts(S \ {m})

SecondsPerHour == 3600

\* createdAt_HKT.dt.hour
hour_of_day(t) == ((t + HKTOffset) % SecondsPerDay) \div SecondsPerHour

day_order ==
    <<"Monday", "Tuesday", "Wednesday", "Thursday", "Friday", "Saturday", "Sunday">>

\* createdAt_HKT.dt.day_name()
day_of_week(t) == day_order[Weekday(LocalDay(t)) + 1]

\* go.Figure() without data.
NoHeatmap == [index |-> <<>>, columns |-> <<>>, z |-> <<>>]

\* pivot_table(index='hour_of_day', columns='day_of_week', values='id',
\*   aggfunc='count').fillna(0).reindex(columns=day_order, fill_value=0): one
\* row per hour that occurs among the rows, the seven days as columns, each
\* cell the number of its rows that have an id.
activity_heatmap_data(df) ==
    LET timed == {i \in 1..Len(df.rows) : df.rows[i]["createdAt"].k = "ts"}
        hours == {hour_of_day(df.rows[i]["createdAt"].n) : i \in timed}
    IN  [index |-> SortInts(hours),
         columns |-> day_order,
         z |-> [h \in hours |-> [d \in Range(day_order) |->
                  Cardinality({i \in timed :
                      /\ hour_of_day(df.rows[i]["createdAt"].n) = h
                      /\ day_of_week(df.rows[i]["createdAt"].n) = d
                      /\ df.rows[i]["id"] # NaN("id")})]]]

\* The values that occur, each counted once whatever the number of its rows.
value_presence(df, col, missing) ==
    [v \in {df.rows[i][col] : i \in 1..Len(df.rows)} \ {missing} |-> 1]

\* Series.value_counts(): value -> number of rows, missing values left out.
value_counts(df, col, missing) ==
    LET vals == {df.rows[i][col] : i \in 1..Len(df.rows)} \ {missing}
    IN  [v \in vals |-> Cardinality({i \in 1..Len(df.rows) : df.rows[i][col] = v})]

\* subscription_counts.get(level, 0)
level_count(df, level) ==
    Cardinality({i \in 1..Len(df.rows) : df.rows[i]["subscription_level"] = level})

NoFigs == [total_accounts |-> 0, pro_users |-> 0, team_users |-> 0,
           wau |-> <<>>, heatmap |-> NoHeatmap, site |-> <<>>, features |-> <<>>]

\* What build_figures_and_render needs of its tables; a column it indexes
\* and does not find raises KeyError.
render_raises(acc_df, usage) ==
    \/ ~HasCol(acc_df, "subscription_level")
    \/ /\ ~IsEmpty(usage)
       /\ ~HasCol(usage, "createdAt") \/ ~HasCol(usage, "account") \/ ~HasCol(usage, "id")

build_figures_and_render(acc_df, usage, ask_df) ==
    [total_accounts |-> Len(acc_df.rows),
     pro_users |-> level_count(acc_df, "pro"),
     team_users |-> level_count(acc_df, "team"),
     wau |-> IF ~IsEmpty(usage) THEN wau_df(usage) ELSE <<>>,
     heatmap |-> IF ~IsEmpty(usage) THEN activity_heatmap_data(usage) ELSE NoHeatmap,
     site |-> IF ~IsEmpty(usage) /\ HasCol(usage, "site_code")
              THEN value_counts(usage, "site_code", NaNStr) ELSE <<>>,
     features |-> IF ~IsEmpty(usage) /\ HasCol(usage, "usage_type")
                  THEN value_counts(usage, "usage_type", NaNText) ELSE <<>>]

-----------------------------------------------------------------------------
(* The tables of the store, filled by the product before a report runs *)

\* table.scan() pages: one more item of the given set in the named table.
Put(name, Items, max) ==
    /\ pc = "idle"
    /\ Len(tables[name]) < max
    /\ \E item \in Items : tables' = [tables EXCEPT ![name] = Append(@, item)]
    /\ UNCHANGED <<pc, args, account_df, usage_df, askai_df, transcription_df,
                   usage_filtered, askai_filtered, transcription_filtered,
                   valid_df, figs, summary_df, html>>

NoTables == [account |-> <<>>, usage |-> <<>>, askai |-> <<>>, transcription |-> <<>>]

InitWith(start_tables) ==
    /\ tables = start_tables
    /\ pc = "idle"
    /\ args = [entry |-> "none", dated |-> FALSE, start |-> 0, end |-> 0, ints |-> "ns"]
    /\ account_df = EmptyDF
    /\ usage_df = EmptyDF
    /\ askai_df = EmptyDF
    /\ transcription_df = EmptyDF
    /\ usage_filtered = EmptyDF
    /\ askai_filtered = EmptyDF
    /\ transcription_filtered = EmptyDF
    /\ valid_df = EmptyDF
    /\ figs = NoFigs
    /\ summary_df = EmptyDF
    /\ html = <<>>

-----------------------------------------------------------------------------
(* kaishing_report_app.main, one rerun of the Streamlit script *)

\* The sidebar's dates and the four scans; end < start stops the script.
AppFetch(Dates) ==
    /\ pc = "idle"
    /\ \E start \in Dates : \E end \in Dates :
          /\ end >= start
          /\ args' = [entry |-> "app", dated |-> TRUE, start |-> start, end |-> end,
                       ints |-> "ns"]
    /\ account_df' = FromItems(tables.account)
    /\ usage_df' = FromItems(tables.usage)
    /\ askai_df' = FromItems(tables.askai)
    /\ transcription_df' = FromItems(tables.transcription)
    /\ pc' = "app_clean"
    /\ UNCHANGED <<tables, usage_filtered, askai_filtered, transcription_filtered,
                   valid_df, figs, summary_df, html>>

\* "Clean and enrich": the denylist and the site codes.
AppClean ==
    /\ pc = "app_clean"
    /\ account_df' = IF ~IsEmpty(account_df) THEN Exclude(account_df) ELSE account_df
    /\ usage_df' = IF ~IsEmpty(usage_df) THEN WithSiteCode(Exclude(usage_df)) ELSE usage_df
    /\ askai_df' = IF ~IsEmpty(askai_df) THEN WithSiteCode(Exclude(askai_df)) ELSE askai_df
    /\ pc' = "app_filter"
    /\ UNCHANGED <<tables, args, transcription_df, usage_filtered, askai_filtered,
                   transcription_filtered, valid_df, figs, summary_df, html>>

\* start_dt: the start date at 00:00:00 UTC.
app_start_dt(a) == a.start * SecondsPerDay

\* end_dt: the end date at 23:59:59.999999 UTC; instants are whole seconds, so
\* the bound admits the same instants as 23:59:59.
app_end_dt(a) == a.end * SecondsPerDay + (SecondsPerDay - 1)

\* "Filter by selected date range"
AppFilter ==
    /\ pc = "app_filter"
    /\ usage_filtered' =
          IF ~IsEmpty(usage_df)
          THEN filter_df_by_range(usage_df, app_start_dt(args), app_end_dt(args))
          ELSE usage_df
    /\ askai_filtered' =
          IF ~IsEmpty(askai_df)
          THEN filter_df_by_range(askai_df, app_start_dt(args), app_end_dt(args))
          ELSE askai_df
    /\ transcription_filtered' =
          IF ~IsEmpty(transcription_df)
          THEN filter_df_by_range(transcription_df, app_start_dt(args), app_end_dt(args))
          ELSE transcription_df
    /\ pc' = "app_render"
    /\ UNCHANGED <<tables, args, account_df, usage_df, askai_df, transcription_df,
                   valid_df, figs, summary_df, html>>

\* "Render charts"
AppRender ==
    /\ pc = "app_render"
    /\ IF render_raises(account_df, usage_filtered)
       THEN pc' = "raised" /\ UNCHANGED figs
       ELSE /\ pc' = "app_summary"
            /\ figs' = build_figures_and_render(account_df, usage_filtered, askai_filtered)
    /\ UNCHANGED <<tables, args, account_df, usage_df, askai_df, transcription_df,
                   usage_filtered, askai_filtered, transcription_filtered, valid_df,
                   summary_df, html>>

\* summary_df = build_summary_df(...)
AppSummary ==
    /\ pc = "app_summary"
    /\ summary_df' = build_summary_df(account_df, usage_filtered,
                                      transcription_filtered, askai_filtered)
    /\ pc' = "done"
    /\ UNCHANGED <<tables, args, account_df, usage_df, askai_df, transcription_df,
                   usage_filtered, askai_filtered, transcription_filtered, valid_df,
                   figs, html>>

AppRun == AppClean \/ AppFilter \/ AppRender \/ AppSummary

-----------------------------------------------------------------------------
(* send_report_enhanced.main, one run of the command line *)

\* The arguments and the scans.  The run gives both dates or none; ints is
\* how the installed pandas reads a number in an object column.
CliFetch(Dates) ==
    /\ pc = "idle"
    /\ \/ \E start \in Dates : \E end \in Dates : \E ints \in {"ns", "nat"} :
             args' = [entry |-> "cli", dated |-> TRUE, start |-> start, end |-> end,
                      ints |-> ints]
       \/ args' = [entry |-> "cli", dated |-> FALSE, start |-> 0, end |-> 0,
                   ints |-> "ns"]
    /\ account_df' = FromItems(tables.account)
    /\ usage_df' = FromItems(tables.usage)
    /\ askai_df' = FromItems(tables.askai)
    /\ transcription_df' = FromItems(tables.transcription)
    /\ pc' = "cli_clean"
    /\ UNCHANGED <<tables, usage_filtered, askai_filtered, transcription_filtered,
                   valid_df, figs, summary_df, html>>

\* The three tables without the denylisted accounts; a table without an
\* 'account' column (an empty scan) raises KeyError.
CliClean ==
    /\ pc = "cli_clean"
    /\ IF \E df \in {account_df, usage_df, askai_df} : ~HasCol(df, "account")
       THEN pc' = "raised" /\ UNCHANGED <<account_df, usage_df, askai_df>>
       ELSE /\ pc' = "cli_filter"
            /\ account_df' = Exclude(account_df)
            /\ usage_df' = Exclude(usage_df)
            /\ askai_df' = Exclude(askai_df)
    /\ UNCHANGED <<tables, args, transcription_df, usage_filtered, askai_filtered,
                   transcription_filtered, valid_df, figs, summary_df, html>>

\* pd.to_datetime('YYYY-MM-DD'): the date at 00:00:00.
cli_date(day) == day * SecondsPerDay

\* "Apply time filtering if dates are provided".  usage_df and askai_df are
\* the tables handed to the filter, usage_filtered and askai_filtered what
\* main goes on with (usage_log_df and ask_ai_df after the assignment).
CliFilter ==
    /\ pc = "cli_filter"
    /\ IF args.dated
       THEN LET u == filter_data_by_time_period(usage_df, cli_date(args.start),
                                                cli_date(args.end), args.ints)
                a == filter_data_by_time_period(askai_df, cli_date(args.start),
                                                cli_date(args.end), args.ints)
            IN  /\ usage_df' = u.table
                /\ usage_filtered' = u.result
                /\ askai_df' = a.table
                /\ askai_filtered' = a.result
       ELSE /\ usage_filtered' = usage_df
            /\ askai_filtered' = askai_df
            /\ UNCHANGED <<usage_df, askai_df>>
    /\ pc' = "cli_normalize"
    /\ UNCHANGED <<tables, args, account_df, transcription_df,
                   transcription_filtered, valid_df, figs, summary_df, html>>

\* for df in [usage_log_df, ask_ai_df]: if 'createdAt' in df.columns: ...
renormalized(df) ==
    IF HasCol(df, "createdAt") THEN SetCol(df, "createdAt", normalized_column(df))
    ELSE df

\* usage_log_df.dropna(subset=['createdAt'])
dropna_createdAt(df) ==
    Rows(df, {i \in 1..Len(df.rows) : df.rows[i]["createdAt"].k = "ts"})

\* The second normalization, usage_log_valid_time_df and the site codes;
\* dropna on a table without the column raises KeyError.
CliNormalize ==
    /\ pc = "cli_normalize"
    /\ IF ~HasCol(usage_filtered, "createdAt")
       THEN pc' = "raised" /\ UNCHANGED <<usage_filtered, askai_filtered, valid_df>>
       ELSE /\ pc' = "cli_figures"
            /\ usage_filtered' = renormalized(usage_filtered)
            /\ valid_df' = WithSiteCode(dropna_createdAt(renormalized(usage_filtered)))
            /\ askai_filtered' =
                  IF ~IsEmpty(askai_filtered)
                  THEN WithSiteCode(renormalized(askai_filtered))
                  ELSE renormalized(askai_filtered)
    /\ UNCHANGED <<tables, args, account_df, usage_df, askai_df, transcription_df,
                   transcription_filtered, figs, summary_df, html>>

\* What "Generate figures" needs of its tables.
figures_raise(acc_df, valid, usage) ==
    \/ ~HasCol(acc_df, "subscription_level")
    \/ ~IsEmpty(valid) /\ ~HasCol(valid, "id")
    \/ ~HasCol(usage, "usage_type")

\* "Generate figures": the aggregates of the command line's figures.
CliFigures ==
    /\ pc = "cli_figures"
    /\ IF figures_raise(account_df, valid_df, usage_filtered)
       THEN pc' = "raised" /\ UNCHANGED figs
       ELSE /\ pc' = "done"
            /\ figs' = [total_accounts |-> Len(account_df.rows),
                        pro_users |-> level_count(account_df, "pro"),
                        team_users |-> level_count(account_df, "team"),
                        wau |-> IF ~IsEmpty(valid_df) THEN wau_df(valid_df) ELSE <<>>,
                        heatmap |-> IF ~IsEmpty(valid_df)
                                    THEN activity_heatmap_data(valid_df) ELSE NoHeatmap,
                        site |-> value_counts(valid_df, "site_code", NaNStr),
                        features |-> value_counts(usage_filtered, "usage_type", NaNText)]
    /\ UNCHANGED <<tables, args, account_df, usage_df, askai_df, transcription_df,
                   usage_filtered, askai_filtered, transcription_filtered, valid_df,
                   summary_df, html>>

CliRun == CliClean \/ CliFilter \/ CliNormalize \/ CliFigures

-----------------------------------------------------------------------------
(* The interactive HTML report: create_interactive_html and its script *)

\* pd.api.types.is_datetime64_any_dtype(temp['createdAt'])
is_datetime(df) == \A i \in 1..Len(df.rows) : df.rows[i]["createdAt"].k \in {"ts", "nat"}

\* The table is not empty and create_interactive_html cannot convert its
\* createdAt: no such column, or one that ends without a time zone.
html_raises(df) ==
    /\ ~IsEmpty(df)
    /\ ~HasCol(df, "createdAt") \/ ~is_datetime(df)

\* What iNaT // 10**6 stands for: an instant before every event.
NaTMillis == -1

\* to_js_epoch on one cell.  createdAt_ms is kept in whole seconds.
to_js_epoch(v) == IF v.k = "ts" THEN v.n ELSE NaTMillis

\* usage_records: packed.to_dict(orient='records')
usage_records(df) ==
    IF IsEmpty(df) THEN <<>>
    ELSE [i \in 1..Len(df.rows) |->
            [account |-> IF HasCol(df, "account") THEN df.rows[i]["account"] ELSE NaNStr,
             site_code |-> IF HasCol(df, "site_code") THEN df.rows[i]["site_code"]
                           ELSE "Unknown",
             usage_type |-> IF HasCol(df, "usage_type") THEN df.rows[i]["usage_type"]
                            ELSE Str(<<"unknown">>),
             createdAt_ms |-> to_js_epoch(df.rows[i]["createdAt"])]]

\* mondayOfWeek(new Date(ms)).toISOString().slice(0,10): the UTC date of the
\* midnight that starts the Monday of the instant's week in the browser's time
\* zone (tz seconds east of UTC), in days since 1970-01-01.
mondayOfWeek(t, tz) ==
    LET day == (t + tz) \div SecondsPerDay
        monday == day - Weekday(day)
    IN  (monday * SecondsPerDay - tz) \div SecondsPerDay

\* plotWAU(filtered): the weeks in order, each with the size of its set of
\* accounts; a record without an account adds its week and no account.
plotWAU(records, tz) ==
    LET weeks == SortInts({mondayOfWeek(records[i].createdAt_ms, tz) :
                              i \in 1..Len(records)})
    IN  [k \in 1..Len(weeks) |->
           [week |-> weeks[k],
            users |-> Cardinality({records[i].account :
                         i \in {i \in 1..Len(records) :
                                  mondayOfWeek(records[i].createdAt_ms, tz) = weeks[k]}}
                         \ {NaNStr})]]

\* The hours of a day, the rows of the script's heatmap.
HoursPerDay == 24

\* plotHeatmap(filtered): counts[hour][day] += 1 for every record, the hour and
\* the weekday (Monday = 0) read in the browser's time zone.
plotHeatmap(records, tz) ==
    [h \in 0..(HoursPerDay - 1) |->
        [d \in 0..(DaysPerWeek - 1) |->
            Cardinality({i \in 1..Len(records) :
                /\ ((records[i].createdAt_ms + tz) % SecondsPerDay) \div SecondsPerHour = h
                /\ Weekday((records[i].createdAt_ms + tz) \div SecondsPerDay) = d})]]

\* r.site_code || 'Unknown': a missing or empty site code is falsy.
js_site(r) == IF r.site_code \in {NaNStr, ""} THEN "Unknown" ELSE r.site_code

\* plotSiteActivity(filtered): site code -> number of records.
plotSiteActivity(records) ==
    [s \in {js_site(records[i]) : i \in 1..Len(records)} |->
        Cardinality({i \in 1..Len(records) : js_site(records[i]) = s})]

\* r.usage_type || 'unknown': a missing or empty label is falsy.
js_feature(r) ==
    IF r.usage_type \in {NaNText, Str(<<>>)} THEN Str(<<"unknown">>) ELSE r.usage_type

\* plotFeatures(filtered): label -> number of records.
plotFeatures(records) ==
    [f \in {js_feature(records[i]) : i \in 1..Len(records)} |->
        Cardinality({i \in 1..Len(records) : js_feature(records[i]) = f})]

\* The time zones of the browsers that open the report: UTC and Hong Kong.
BrowserOffsets == {0, HKTOffset}

\* "Build HTML Report" / --export-html: the report is written from the table
\* of usage events the entry point kept.
BuildHtml ==
    /\ pc = "done"
    /\ LET df == IF args.entry = "app" THEN usage_filtered ELSE valid_df
           ask == askai_filtered
       IN  IF html_raises(df) \/ html_raises(ask)
           THEN pc' = "raised" /\ UNCHANGED html
           ELSE /\ pc' = "html"
                /\ html' = [usage_records |-> usage_records(df), tz |-> 0, wau |-> <<>>,
                          heatmap |-> <<>>, site |-> <<>>, features |-> <<>>]
    /\ UNCHANGED <<tables, args, account_df, usage_df, askai_df, transcription_df,
                   usage_filtered, askai_filtered, transcription_filtered, valid_df,
                   figs, summary_df>>

\* The report is opened: init() applies the range "all time".
JsInit ==
    /\ pc = "html"
    /\ \E tz \in BrowserOffsets :
          html' = [html EXCEPT !.tz = tz,
                               !.wau = plotWAU(html.usage_records, tz),
                               !.heatmap = plotHeatmap(html.usage_records, tz),
                               !.site = plotSiteActivity(html.usage_records),
                               !.features = plotFeatures(html.usage_records)]
    /\ pc' = "plotted"
    /\ UNCHANGED <<tables, args, account_df, usage_df, askai_df, transcription_df,
                   usage_filtered, askai_filtered, transcription_filtered, valid_df,
                   figs, summary_df>>

HtmlRun == BuildHtml \/ JsInit

-----------------------------------------------------------------------------
(* Items of the store *)

AccountItem(a, level) == ("account" :> a) @@ ("subscription_level" :> level)

NamedAccountItem(a, level, name) == AccountItem(a, level) @@ ("username" :> name)

UsageItem(a, created, label) ==
    ("account" :> a) @@ ("createdAt" :> created) @@ ("usage_type" :> label)
    @@ ("id" :> "x")

TimedItem(a, created) == ("account" :> a) @@ ("createdAt" :> created)

\* 2024-01-03, in days since 1970-01-01, and an instant of that day (10:00 UTC).
Day3 == 19725
Noon3 == 1704276000

-----------------------------------------------------------------------------
(* Reports over usage events whose labels are built from the rule tokens *)

Tokens == {"regenerate", "generate", "initial", "transcript", "summary", "note"}

Labels == {Str(l) : l \in SeqsUpTo(Tokens, MaxTokens) \ {<<>>}}

LabelUsageItems == {UsageItem("A", Num(Noon3), l) : l \in Labels}

InitLabels ==
    InitWith([NoTables EXCEPT !.account = <<AccountItem("A", "pro")>>])

NextLabels ==
    \/ Put("usage", LabelUsageItems, 1)
    \/ AppFetch({Day3})
    \/ AppRun

SpecLabels == InitLabels /\ [][NextLabels]_vars

-----------------------------------------------------------------------------
(* Reports over small rosters, with and without user names *)

SummaryAccountItems ==
    {AccountItem("A", "pro"), NamedAccountItem("A", "pro", "Ann"),
     NamedAccountItem("B", "team", "Bob")}

SummaryUsageItems ==
    {UsageItem(a, Num(Noon3), Str(l)) :
        a \in {"A", "C"},
        l \in {<<"regenerate", "_", "transcript">>, <<"generate", " ", "note">>}}

NextSummary ==
    \/ Put("account", SummaryAccountItems, MaxAccountRows)
    \/ Put("usage", SummaryUsageItems, MaxUsageRows)
    \/ Put("transcription", {TimedItem("A", Num(Noon3))}, MaxOtherRows)
    \/ Put("askai", {TimedItem("B", Num(Noon3))}, MaxOtherRows)
    \/ AppFetch({Day3})
    \/ AppRun

SpecSummary == InitWith(NoTables) /\ [][NextSummary]_vars

-----------------------------------------------------------------------------
(* Reports over the events of the two-account scenario *)

ScenarioUsageItems ==
    {UsageItem("A", Num(Noon3), Str(<<"initial", " ", "summary">>)),
     UsageItem("A", Num(Noon3), Str(<<"regenerate", " ", "summary">>)),
     UsageItem("B", Num(Noon3), Str(<<"generate", " ", "note">>))}

NextScenario ==
    \/ Put("account", {AccountItem("A", "pro"), AccountItem("B", "team")}, MaxAccountRows)
    \/ Put("usage", ScenarioUsageItems, MaxScenarioRows)
    \/ AppFetch({Day3})
    \/ AppRun

SpecScenario == InitWith(NoTables) /\ [][NextScenario]_vars

-----------------------------------------------------------------------------
(* Properties of the summary matrix *)

CountColumns ==
    <<"generated transcripts">> \o LabelColumns \o <<"askai questions">>

\* The accounts of the rows of a table.
Accounts(df) == {df.rows[i]["account"] : i \in 1..Len(df.rows)}

\* The number of rows of a table that belong to an account.
RowsOf(df, a) == Cardinality({i \in 1..Len(df.rows) : df.rows[i]["account"] = a})

\* The counts of a summary row, in the order of CountColumns.
CountsOf(row) == [k \in 1..Len(CountColumns) |-> row[CountColumns[k]]]

\* C1: a single usage event increments at most one label-based category count
\* of its account (at most one of the five label predicates selects it).
C1_OneCategoryPerEvent ==
    (pc = "done" /\ Len(usage_filtered.rows) = 1) =>
        \A i \in 1..Len(summary_df.rows) :
            Cardinality({k \in 1..Len(LabelColumns) :
                            summary_df.rows[i][LabelColumns[k]] # Some(0)}) <= 1

\* C2: the summary has exactly one row per distinct roster account, and no row
\* of an account outside the roster.
C2_OneRowPerAccount ==
    pc = "done" =>
        /\ \A a \in Accounts(account_df) : RowsOf(summary_df, a) = 1
        /\ Accounts(summary_df) \subseteq Accounts(account_df)

\* C3: every count of every summary row is a natural number, never missing,
\* and is 0 when the account has no row in the column's source table.
C3_CountsAreNaturals ==
    pc = "done" =>
        \A i \in 1..Len(summary_df.rows) :
            LET row == summary_df.rows[i]
                a == row["account"]
            IN  /\ \A k \in 1..Len(CountColumns) :
                      /\ Len(row[CountColumns[k]]) = 1
                      /\ row[CountColumns[k]][1] \in Nat
                /\ RowsOf(transcription_filtered, a) = 0
                      => row["generated transcripts"] = Some(0)
                /\ RowsOf(askai_filtered, a) = 0 => row["askai questions"] = Some(0)
                /\ RowsOf(usage_filtered, a) = 0
                      => \A k \in 1..Len(LabelColumns) : row[LabelColumns[k]] = Some(0)

\* A summary with a row that has events and a row that has none.
C3_Witness ==
    /\ pc = "done"
    /\ \E i \in 1..Len(summary_df.rows) : \E j \in 1..Len(summary_df.rows) :
          /\ summary_df.rows[i]["regenerated transcripts"] = Some(1)
          /\ RowsOf(usage_filtered, summary_df.rows[j]["account"]) = 0
          /\ RowsOf(transcription_filtered, summary_df.rows[j]["account"]) = 0
          /\ summary_df.rows[j]["generated transcripts"] = Some(0)

\* The scenario's inputs reached the builder: roster {A, B} and the three events.
ScenarioGiven ==
    /\ Accounts(account_df) = {"A", "B"}
    /\ Len(usage_filtered.rows) = 3
    /\ {<<usage_filtered.rows[i]["account"], usage_filtered.rows[i]["usage_type"]>> :
           i \in 1..Len(usage_filtered.rows)}
       = {<<"A", Str(<<"initial", " ", "summary">>)>>,
          <<"A", Str(<<"regenerate", " ", "summary">>)>>,
          <<"B", Str(<<"generate", " ", "note">>)>>}
    /\ IsEmpty(transcription_filtered)
    /\ IsEmpty(askai_filtered)

\* C4: in the scenario A has one initial summary and one regenerated summary,
\* B has one generated note, and every other count is 0.
C4_Scenario ==
    (pc = "done" /\ ScenarioGiven) =>
        \A i \in 1..Len(summary_df.rows) :
            LET row == summary_df.rows[i]
            IN  /\ row["account"] = "A" =>
                      CountsOf(row) = <<Some(0), Some(0), Some(1), Some(1),
                                        Some(0), Some(0), Some(0)>>
                /\ row["account"] = "B" =>
                      CountsOf(row) = <<Some(0), Some(0), Some(0), Some(0),
                                        Some(1), Some(0), Some(0)>>

C4_Witness ==
    /\ pc = "done"
    /\ ScenarioGiven
    /\ Accounts(summary_df) = {"A", "B"}

-----------------------------------------------------------------------------
(* Reports over usage events around the bounds of the date range, some     *)
(* with createdAt values that are not epoch seconds                        *)

Day4 == 19726

\* The first and last second of 2024-01-03 (UTC) and the seconds around them.
Day3Start == 1704240000
Day3End == 1704326399

DateText == "2024-01-03 10:00:00"

FilterTimes ==
    {Num(Day3Start - 1), Num(Day3Start), Num(Noon3), Num(Day3End), Num(Day3End + 1),
     Num(Day3End + 2), DateStr(DateText), DateStr("1704276000"), DateStr("not a date")}

FilterUsageItems ==
    {UsageItem("A", t, Str(<<"login">>)) : t \in FilterTimes}
    \cup {("account" :> "A") @@ ("usage_type" :> Str(<<"login">>)) @@ ("id" :> "x")}

InitFilter ==
    InitWith([NoTables EXCEPT !.account = <<AccountItem("A", "pro")>>,
                              !.askai = <<TimedItem("B", Num(Noon3))>>])

NextFilter ==
    \/ Put("usage", FilterUsageItems, MaxUsageRows)
    \/ AppFetch({Day3})
    \/ AppRun
    \/ CliFetch({Day3, Day4})
    \/ CliRun

SpecFilter == InitFilter /\ [][NextFilter]_vars

-----------------------------------------------------------------------------
(* Properties of the range filter *)

\* The range filter has just returned the usage table.
FilterReturned ==
    /\ args.dated
    /\ \/ args.entry = "app" /\ pc = "app_render"
       \/ args.entry = "cli" /\ pc = "cli_normalize"
    /\ HasCol(usage_df, "createdAt")

\* The bounds the filter was called with.
RangeStart == IF args.entry = "app" THEN app_start_dt(args) ELSE cli_date(args.start)
RangeEnd == IF args.entry = "app" THEN app_end_dt(args) ELSE cli_date(args.end)

\* The table given to the filter, with the column as the filter normalized it.
NormalizedInput ==
    IF args.entry = "app" THEN SetCol(usage_df, "createdAt", normalized_column(usage_df))
    ELSE usage_df

\* The number of rows of a table at the instant t.
CountAt(df, t) ==
    Cardinality({i \in 1..Len(df.rows) : df.rows[i]["createdAt"] = Ts(t)})

\* The number of usage items of the store whose createdAt is one of vals.
ItemsWith(vals) ==
    Cardinality({i \in 1..Len(tables.usage) :
                    /\ "createdAt" \in DOMAIN tables.usage[i]
                    /\ tables.usage[i]["createdAt"] \in vals
                    /\ tables.usage[i]["account"] \notin users_to_exclude})

\* C5: the filter returns the rows whose normalized instant is start or end,
\* and none a second before start or a second after end.
C5_InclusiveBounds ==
    (FilterReturned /\ RangeStart <= RangeEnd) =>
        /\ \A t \in {RangeStart, RangeEnd} :
              CountAt(usage_filtered, t) = CountAt(NormalizedInput, t)
        /\ \A t \in {RangeStart - 1, RangeEnd + 1} : CountAt(usage_filtered, t) = 0

\* The app filtered a table with a row at end and a row a second after it.
C5_Witness ==
    /\ FilterReturned
    /\ args.entry = "app"
    /\ CountAt(NormalizedInput, RangeEnd) = 1
    /\ CountAt(NormalizedInput, RangeEnd + 1) = 1
    /\ CountAt(usage_filtered, RangeEnd) = 1
    /\ Len(usage_filtered.rows) = 1

\* C6: with rows whose createdAt cannot be normalized in the table, the filter
\* still returns every row with epoch seconds inside the range, and no row
\* with a missing instant.
C6_BadRowsOnlyDropped ==
    (FilterReturned /\ RangeStart <= Noon3 /\ Noon3 <= RangeEnd
        /\ \A i \in 1..Len(tables.usage) :
              "createdAt" \in DOMAIN tables.usage[i] =>
                  tables.usage[i]["createdAt"] \in {Num(Noon3), DateStr("not a date")}) =>
        /\ CountAt(usage_filtered, Noon3) >= ItemsWith({Num(Noon3)})
        /\ \A i \in 1..Len(usage_filtered.rows) :
              usage_filtered.rows[i]["createdAt"].k = "ts"

\* C7: an event whose createdAt is a date string inside the range is returned
\* by the filter, as the event with the equal epoch seconds is.
C7_DateStringsNormalized ==
    (FilterReturned /\ RangeStart <= Noon3 /\ Noon3 <= RangeEnd
        /\ ItemsWith({Num(Noon3), DateStr(DateText)}) = Len(tables.usage)) =>
        CountAt(usage_filtered, Noon3) = ItemsWith({DateStr(DateText)})
                                         + ItemsWith({Num(Noon3)})

-----------------------------------------------------------------------------
(* Reports over the usage of mapped, unmapped and denylisted accounts *)

SiteAccounts ==
    {"eddiecheuk@kaishing.com.hk", "ksitsupport@kaishing.com.hk",
     "Vcity@kaishing.com.hk", "vcity@kaishing.com.hk", "unknown@nowhere.com",
     "kian.so@thinkcol.com"}

InitSites ==
    InitWith([NoTables EXCEPT
                !.account = <<AccountItem("eddiecheuk@kaishing.com.hk", "pro")>>,
                !.askai = <<TimedItem("Vcity@kaishing.com.hk", Num(Noon3))>>])

NextSites ==
    \/ Put("usage", {UsageItem(a, Num(Noon3), Str(<<"login">>)) : a \in SiteAccounts},
           MaxUsageRows)
    \/ AppFetch({Day3})
    \/ AppRun
    \/ CliFetch({Day3})
    \/ CliRun

SpecSites == InitSites /\ [][NextSites]_vars

\* The rows that carry a site code.
SiteRows ==
    (IF HasCol(usage_df, "site_code") THEN Range(usage_df.rows) ELSE {})
    \cup (IF HasCol(valid_df, "site_code") THEN Range(valid_df.rows) ELSE {})
    \cup (IF HasCol(askai_df, "site_code") THEN Range(askai_df.rows) ELSE {})
    \cup (IF HasCol(askai_filtered, "site_code") THEN Range(askai_filtered.rows) ELSE {})

\* C8: an account that is a key of site_code_map gets the key's code, any other
\* account, also one that differs from a key by letter case only, gets
\* 'Unknown', and the lookup does not raise.
C8_ExactLookup ==
    /\ (pc \in {"app_filter", "app_render", "app_summary"} /\ ~IsEmpty(usage_df))
          => HasCol(usage_df, "site_code")
    /\ pc = "cli_figures" => HasCol(valid_df, "site_code")
    /\ \A row \in SiteRows :
          /\ row["account"] = "eddiecheuk@kaishing.com.hk" => row["site_code"] = "HQ-IT"
          /\ row["account"] = "ksitsupport@kaishing.com.hk" => row["site_code"] = "HQ-IT"
          /\ row["account"] = "Vcity@kaishing.com.hk" => row["site_code"] = "VCY"
          /\ row["account"] = "vcity@kaishing.com.hk" => row["site_code"] = "Unknown"
          /\ row["account"] = "unknown@nowhere.com" => row["site_code"] = "Unknown"

\* A table with the key 'Vcity@...' and its lower-case variant, both resolved.
C8_Witness ==
    /\ \E row \in SiteRows :
          row["account"] = "vcity@kaishing.com.hk" /\ row["site_code"] = "Unknown"
    /\ \E row \in SiteRows :
          row["account"] = "Vcity@kaishing.com.hk" /\ row["site_code"] = "VCY"
    /\ \E row \in SiteRows :
          row["account"] = "eddiecheuk@kaishing.com.hk" /\ row["site_code"] = "HQ-IT"

-----------------------------------------------------------------------------
(* Reports over the usage of two weeks *)

\* 2023-12-31 and 2024-01-08, in days since 1970-01-01.
Day0 == 19722
Day8 == 19730

\* Hong Kong time: Monday 2024-01-01 00:00:00, Sunday 2024-01-07 23:59:59 and
\* Monday 2024-01-08 00:00:00.
MondayStart == 1704038400
SundayEnd == 1704643199
NextMonday == 1704643200

WeekUsageItems ==
    {UsageItem(a, Num(t), Str(<<"login">>)) :
        a \in {"A", "B"}, t \in {MondayStart, Noon3, SundayEnd, NextMonday}}

InitWeeks ==
    InitWith([NoTables EXCEPT !.account = <<AccountItem("A", "pro")>>,
                              !.askai = <<TimedItem("B", Num(Noon3))>>])

NextWeeks ==
    \/ Put("usage", WeekUsageItems, MaxUsageRows)
    \/ AppFetch({Day0, Day8})
    \/ AppRun
    \/ CliFetch({Day0, Day8})
    \/ CliRun
    \/ HtmlRun

SpecWeeks == InitWeeks /\ [][NextWeeks]_vars

\* The Monday that starts the local week of an instant (a local day).
MondayOf(t) == LocalDay(t) - Weekday(LocalDay(t))

\* The table the weekly active users are computed from.
WauInput == IF args.entry = "app" THEN usage_filtered ELSE valid_df

\* The instants of the events the weekly active users are computed from.
WauInstants ==
    {WauInput.rows[i]["createdAt"].n : i \in 1..Len(WauInput.rows)}

\* C9: the events from a Monday 00:00:00 to the following Sunday 23:59:59
\* (Hong Kong time) are in one bucket, identified by that Monday's date, and
\* those of the next week in another.
C9_MondayToSunday ==
    pc = "done" =>
        {figs.wau[k].week : k \in {k \in 1..Len(figs.wau) : figs.wau[k].users > 0}}
            = {MondayOf(t) : t \in WauInstants}

-----------------------------------------------------------------------------
(* Reports over usage events two weeks apart *)

\* 2024-01-17, in days since 1970-01-01, and an instant of that day (10:00 UTC).
Day17 == 19739
Noon17 == 1705485600

GapUsageItems ==
    {UsageItem(a, Num(t), Str(<<"login">>)) : a \in {"A", "B"}, t \in {Noon3, Noon17}}

NextGaps ==
    \/ Put("usage", GapUsageItems, MaxUsageRows)
    \/ AppFetch({Day0, Day17})
    \/ AppRun
    \/ CliFetch({Day0, Day17})
    \/ CliRun

SpecGaps == InitWeeks /\ [][NextGaps]_vars

\* C11: the series of weekly active users holds no week with 0 accounts: a
\* week without events between two weeks with events is left out.
C11_NoEmptyWeeks ==
    pc = "done" => \A k \in 1..Len(figs.wau) : figs.wau[k].users > 0

\* C12: the heatmap of a report with events has the 24 hours 0..23 as rows
\* and the seven days, Monday first, as columns, every cell holding a number.
C12_FullHeatmap ==
    (pc = "done" /\ ~IsEmpty(WauInput)) =>
        /\ figs.heatmap.index = [h \in 1..24 |-> h - 1]
        /\ figs.heatmap.columns = day_order
        /\ \A h \in DOMAIN figs.heatmap.z : \A d \in Range(day_order) :
               figs.heatmap.z[h][d] \in Nat

\* The rows of a table in the week bucket w of the entry points.
InWeek(df, w) ==
    {i \in 1..Len(df.rows) :
        df.rows[i]["createdAt"].k = "ts" /\ WeekLabel(df.rows[i]["createdAt"].n) = w}

\* The records of the report in the week w of its script.
InJsWeek(w) ==
    {i \in 1..Len(html.usage_records) :
        mondayOfWeek(html.usage_records[i].createdAt_ms, html.tz) = w}

\* The rows of group that are the first of their account in group.
FirstOfAccount(accountOf(_), group) ==
    {i \in group : \A j \in group : j < i => accountOf(j) # accountOf(i)}

\* C10: the value of every week bucket is the number of distinct accounts with
\* an event in that week: an event of an account counts only if no earlier
\* event of the week is of the same account.
C10_DistinctAccounts ==
    /\ pc \in {"done", "html", "plotted"} =>
          \A k \in 1..Len(figs.wau) :
              LET rowAccount(i) == WauInput.rows[i]["account"]
              IN  figs.wau[k].users =
                     Cardinality(FirstOfAccount(rowAccount, InWeek(WauInput, figs.wau[k].week)))
    /\ pc = "plotted" =>
          \A k \in 1..Len(html.wau) :
              LET recordAccount(i) == html.usage_records[i].account
              IN  html.wau[k].users =
                     Cardinality(FirstOfAccount(recordAccount, InJsWeek(html.wau[k].week)))

\* Both series hold a week with two events of one account, counted once.
C10_Witness ==
    /\ pc = "plotted"
    /\ \E k \in 1..Len(figs.wau) :
          /\ figs.wau[k].users = 1
          /\ Cardinality(InWeek(WauInput, figs.wau[k].week)) = 2
    /\ \E k \in 1..Len(html.wau) :
          /\ html.wau[k].users = 1
          /\ Cardinality(InJsWeek(html.wau[k].week)) = 2

-----------------------------------------------------------------------------
(* Reports over usage events labelled with the category names and with     *)
(* labels in other word orders and letter cases                            *)

\* The six category columns of the summary.
CategoryColumns == <<"generated transcripts">> \o LabelColumns

\* The name of each category, as a usage_type label.
CategoryLabel(name) ==
    CASE name = "generated transcripts"   -> <<"generate", "d", "_", "transcript", "s">>
      [] name = "regenerated transcripts" -> <<"regenerate", "d", "_", "transcript", "s">>
      [] name = "initial summaries"       -> <<"initial", "_", "summaries">>
      [] name = "regenerated summaries"   -> <<"regenerate", "d", "_", "summaries">>
      [] name = "generated notes"         -> <<"generate", "d", "_", "note", "s">>
      [] name = "regenerated notes"       -> <<"regenerate", "d", "_", "note", "s">>

RegenerateTranscriptAction == <<"regenerate", "_", "transcript", "_", "action">>
RegenerateTranscriptActionUpper == <<"Regenerate", "_", "transcript", "_", "action">>
TranscriptRegenerate == <<"transcript", "_", "regenerate">>

NamedLabels ==
    {CategoryLabel(CategoryColumns[k]) : k \in 1..Len(CategoryColumns)}
    \cup {RegenerateTranscriptAction, RegenerateTranscriptActionUpper, TranscriptRegenerate}
    \cup {<<"regenerate", " ", "summary">>, <<"Regenerate", " ", "Summary">>,
          <<"initial", " ", "regenerate", " ", "summary">>,
          <<"Regenerate", "_", "note">>, <<"generate", "_", "summary">>,
          <<"initial", "_", "note">>}

NextNames ==
    \/ Put("usage", {UsageItem("A", Num(Noon3), Str(l)) : l \in NamedLabels}, MaxUsageRows)
    \/ AppFetch({Day3})
    \/ AppRun

SpecNames == InitLabels /\ [][NextNames]_vars

\* The sum of the six category counts of a summary row.
CategorySum(row) ==
    row[CategoryColumns[1]][1] + row[CategoryColumns[2]][1] + row[CategoryColumns[3]][1]
    + row[CategoryColumns[4]][1] + row[CategoryColumns[5]][1] + row[CategoryColumns[6]][1]

\* C13: the six category counts of a roster account sum to at most the number
\* of events of that account in the usage table given to the builder.
C13_SumWithinEvents ==
    pc = "done" =>
        \A i \in 1..Len(summary_df.rows) :
            CategorySum(summary_df.rows[i])
                <= RowsOf(usage_filtered, summary_df.rows[i]["account"])

\* The labels of the usage events given to the builder.
LabelsGiven ==
    {usage_filtered.rows[i]["usage_type"] : i \in 1..Len(usage_filtered.rows)}

\* C15: a usage event labelled with the name of a category is counted in that
\* category and in no other.
C15_NamesKeepCategory ==
    (pc = "done" /\ Len(usage_filtered.rows) = 1) =>
        \A k \in 1..Len(CategoryColumns) :
            LabelsGiven = {Str(CategoryLabel(CategoryColumns[k]))} =>
                \A i \in 1..Len(summary_df.rows) : \A j \in 1..Len(CategoryColumns) :
                    summary_df.rows[i][CategoryColumns[j]]
                        = IF j = k THEN Some(1) ELSE Some(0)

\* The number of usage events given to the builder with one of the labels.
EventsLabelled(labels) ==
    Cardinality({i \in 1..Len(usage_filtered.rows) :
                    usage_filtered.rows[i]["usage_type"] \in {Str(l) : l \in labels}})

\* C16: 'regenerate_transcript_action', in any letter case, is counted as
\* regenerated transcripts, and 'transcript_regenerate' in no category.
C16_OrderSensitive ==
    (pc = "done"
        /\ LabelsGiven \subseteq {Str(RegenerateTranscriptAction),
                                  Str(RegenerateTranscriptActionUpper),
                                  Str(TranscriptRegenerate)}) =>
        \A i \in 1..Len(summary_df.rows) : \A j \in 1..Len(CategoryColumns) :
            summary_df.rows[i][CategoryColumns[j]]
                = IF CategoryColumns[j] = "regenerated transcripts"
                  THEN Some(EventsLabelled({RegenerateTranscriptAction,
                                            RegenerateTranscriptActionUpper}))
                  ELSE Some(0)

\* The summary of one event in each word order.
C16_Witness ==
    /\ pc = "done"
    /\ LabelsGiven = {Str(RegenerateTranscriptActionUpper), Str(TranscriptRegenerate)}
    /\ Len(summary_df.rows) = 1
    /\ summary_df.rows[1]["regenerated transcripts"] = Some(1)

\* C17: no event is counted both as initial and as regenerated summaries, nor
\* both as generated and as regenerated notes, and an event whose label
\* contains 'regenerate' in any letter case is in neither first bucket.
C17_RegenerateGuard ==
    (pc = "done" /\ Len(usage_filtered.rows) = 1) =>
        \A i \in 1..Len(summary_df.rows) :
            LET row == summary_df.rows[i]
            IN  /\ row["initial summaries"] = Some(0) \/ row["regenerated summaries"] = Some(0)
                /\ row["generated notes"] = Some(0) \/ row["regenerated notes"] = Some(0)
                /\ (\E v \in LabelsGiven : Search(Lower(Chars(v.toks)), TokenChars("regenerate")))
                      => /\ row["initial summaries"] = Some(0)
                         /\ row["generated notes"] = Some(0)

\* The summary of one event labelled 'Regenerate_note'.
C17_Witness ==
    /\ pc = "done"
    /\ LabelsGiven = {Str(<<"Regenerate", "_", "note">>)}
    /\ Len(summary_df.rows) = 1
    /\ summary_df.rows[1]["regenerated notes"] = Some(1)
    /\ summary_df.rows[1]["generated notes"] = Some(0)

-----------------------------------------------------------------------------
(* Reports over the four tables, with denylisted accounts in each and with *)
(* usage events that carry no usage_type                                   *)

Denylisted == "kian.so@thinkcol.com"

\* A usage event without a usage_type.
UnlabelledItem(a, created) ==
    ("account" :> a) @@ ("createdAt" :> created) @@ ("id" :> "x")

TablesUsageItems ==
    {UsageItem("A", Num(Noon3), Str(<<"generate", " ", "note">>)),
     UsageItem(Denylisted, Num(Noon3), Str(<<"generate", " ", "note">>)),
     UnlabelledItem("A", Num(Noon3))}

\* Transcription rows with and without a createdAt.
TablesTranscriptionItems ==
    {TimedItem("A", Num(Noon3)), TimedItem(Denylisted, Num(Noon3)), "account" :> "A"}

InitTables ==
    InitWith([NoTables EXCEPT
                !.account = <<AccountItem("A", "pro"), AccountItem(Denylisted, "pro")>>])

NextTables ==
    \/ Put("usage", TablesUsageItems, MaxOtherRows)
    \/ Put("askai", {TimedItem(Denylisted, Num(Noon3))}, MaxOtherRows)
    \/ Put("transcription", TablesTranscriptionItems, MaxUsageRows)
    \/ AppFetch({Day3})
    \/ AppRun
    \/ CliFetch({})
    \/ CliRun

SpecTables == InitTables /\ [][NextTables]_vars

\* The entry point has cleaned its tables.
Cleaned ==
    \/ args.entry = "app" /\ pc \in {"app_filter", "app_render", "app_summary", "done"}
    \/ args.entry = "cli" /\ pc \in {"cli_filter", "cli_normalize", "cli_figures", "done"}

\* The tables the entry point computes its aggregates from.
InputTables ==
    IF args.entry = "app" THEN {account_df, usage_df, askai_df, transcription_df}
    ELSE {account_df, usage_df, askai_df}

\* C14: once the tables are cleaned, none of the tables that the aggregates
\* are computed from holds a row of a denylisted account.
C14_DenylistStripped ==
    Cleaned => \A df \in InputTables : Accounts(df) \cap users_to_exclude = {}

ExportColumns ==
    <<"account", "username", "generated_transcripts", "regenerated_transcripts",
      "initial_summaries", "regenerated_summaries", "generated_notes",
      "regenerated_notes", "askai_questions">>

\* C19: the Summary Matrix has exactly the columns account, username and the
\* seven counts, named with underscores, in this order.
C19_ExportColumns ==
    (pc = "done" /\ args.entry = "app" /\ ~IsEmpty(summary_df)) =>
        summary_df.columns = ExportColumns

\* C20: with a usage table that has rows and no usage_type column, the run
\* does not raise, the feature distribution is empty and the five label-based
\* counts of every roster account are 0.
C20_NoUsageTypeColumn ==
    (pc \notin {"idle", "app_clean", "cli_clean"} /\ tables.askai # <<>>
        /\ ~IsEmpty(usage_df) /\ ~HasCol(usage_df, "usage_type")) =>
        /\ pc # "raised"
        /\ pc = "done" =>
              /\ figs.features = <<>>
              /\ args.entry = "app" =>
                    \A i \in 1..Len(summary_df.rows) : \A k \in 1..Len(LabelColumns) :
                        summary_df.rows[i][LabelColumns[k]] = Some(0)

-----------------------------------------------------------------------------
(* Properties of runs over empty tables *)

ZeroHeatmap ==
    [index |-> [h \in 1..24 |-> h - 1],
     columns |-> day_order,
     z |-> [h \in 0..23 |-> [d \in Range(day_order) |-> 0]]]

\* C22: with an empty usage table the run does not raise, the weekly series
\* is empty, the heatmap is the 24 x 7 matrix of zeros and the feature
\* distribution is empty.
C22_EmptyUsage ==
    (pc # "idle" /\ tables.usage = <<>> /\ tables.askai # <<>>) =>
        /\ pc # "raised"
        /\ pc = "done" =>
              /\ figs.wau = <<>>
              /\ figs.heatmap = ZeroHeatmap
              /\ figs.features = <<>>

\* C23: with an empty account table the run does not raise and ends with
\* KPIs of 0 and an empty summary.
C23_EmptyRoster ==
    (pc # "idle" /\ tables.account = <<>>) =>
        /\ pc # "raised"
        /\ pc = "done" =>
              /\ figs.total_accounts = 0 /\ figs.pro_users = 0 /\ figs.team_users = 0
              /\ IsEmpty(summary_df)

-----------------------------------------------------------------------------
(* Reports over usage tables the range filter has nothing to do with: rows *)
(* without a createdAt, and rows that the denylist removes                 *)

NoopUsageItems ==
    {UsageItem(Denylisted, Num(Noon3), Str(<<"login">>)),
     UnlabelledItem(Denylisted, Num(Noon3)),
     ("account" :> "A") @@ ("usage_type" :> Str(<<"login">>)) @@ ("id" :> "x"),
     ("account" :> "A") @@ ("id" :> "x")}

NextNoop ==
    \/ Put("usage", NoopUsageItems, MaxUsageRows)
    \/ AppFetch({Day3, Day4})
    \/ AppRun
    \/ CliFetch({Day3, Day4})
    \/ CliRun

SpecNoop == InitFilter /\ [][NextNoop]_vars

\* The range filter has just returned the usage table.
FilterCalled ==
    /\ args.dated
    /\ \/ args.entry = "app" /\ pc = "app_render"
       \/ args.entry = "cli" /\ pc = "cli_normalize"

\* The usage table as the entry point passed it to the range filter: the scan
\* after the clean step.
FilterInput ==
    LET scan == FromItems(tables.usage)
    IN  IF args.entry = "app"
        THEN (IF ~IsEmpty(scan) THEN WithSiteCode(Exclude(scan)) ELSE scan)
        ELSE Exclude(scan)

\* C24: given a table that is empty or has no createdAt column, the range
\* filter returns the table it was given, rows and columns, whatever the bounds.
C24_NoopFilter ==
    (FilterCalled /\ (IsEmpty(FilterInput) \/ ~HasCol(FilterInput, "createdAt"))) =>
        usage_filtered = FilterInput

\* The app's filter has returned a table of two rows without createdAt, with
\* bounds a day apart.
C24_Witness ==
    /\ FilterCalled
    /\ args.entry = "app"
    /\ args.start < args.end
    /\ Len(FilterInput.rows) = 2
    /\ ~HasCol(FilterInput, "createdAt")
    /\ usage_filtered = FilterInput

\* The usage events of the store that are not denylisted and whose createdAt
\* is a number of epoch seconds inside the run's range.
ValidInRange ==
    {i \in 1..Len(tables.usage) :
        /\ tables.usage[i]["account"] \notin users_to_exclude
        /\ "createdAt" \in DOMAIN tables.usage[i]
        /\ tables.usage[i]["createdAt"].k = "num"
        /\ args.dated => /\ tables.usage[i]["createdAt"].n >= RangeStart
                         /\ tables.usage[i]["createdAt"].n <= RangeEnd}

\* C25: every usage event with a valid instant inside the range is in the
\* bucket of its week, and the accounts of each bucket are the accounts of
\* those events of that week.
C25_BucketsExhaustEvents ==
    pc = "done" =>
        /\ \A i \in ValidInRange :
              \E k \in 1..Len(figs.wau) :
                  figs.wau[k].week = WeekLabel(tables.usage[i]["createdAt"].n)
        /\ \A k \in 1..Len(figs.wau) :
              figs.wau[k].users =
                  Cardinality({tables.usage[i]["account"] :
                      i \in {j \in ValidInRange :
                                WeekLabel(tables.usage[j]["createdAt"].n) = figs.wau[k].week}})

\* C26: after the range filter has returned, the table that was passed to it
\* is as it was passed: same rows, same createdAt values.
C26_InputUntouched ==
    FilterCalled => usage_df = FilterInput

\* C27: on the command line, an event with epoch seconds inside the range is
\* kept by the filter and, after the second normalization, is in
\* usage_log_valid_time_df with the same instant and in the weekly series.
C27_SecondNormalization ==
    (args.entry = "cli" /\ args.dated /\ pc \in {"cli_figures", "done"}
        /\ RangeStart <= Noon3 /\ Noon3 <= RangeEnd
        /\ tables.usage # <<>>
        /\ ItemsWith({Num(Noon3)}) = Len(tables.usage)) =>
        /\ CountAt(valid_df, Noon3) = Len(tables.usage)
        /\ pc = "done" => figs.wau # <<>>

-----------------------------------------------------------------------------
(* The heatmap, the site distribution and the feature distribution of a run
   and of the HTML report written from it *)

\* Events of the two 'HQ-IT' accounts and of an account without a site; one
\* with an empty label, one without usage_type, one without id.
RecordUsageItems ==
    {UsageItem("eddiecheuk@kaishing.com.hk", Num(Noon3), Str(<<"login">>)),
     UsageItem("ksitsupport@kaishing.com.hk", Num(SundayEnd), Str(<<"login">>)),
     UsageItem("A", Num(Noon3), Str(<<>>)),
     UnlabelledItem("ksitsupport@kaishing.com.hk", Num(Noon3)),
     ("account" :> "A") @@ ("createdAt" :> Num(SundayEnd))
        @@ ("usage_type" :> Str(<<"login">>))}

NextRecords ==
    \/ Put("usage", RecordUsageItems, MaxUsageRows)
    \/ AppFetch({Day0, Day8})
    \/ AppRun
    \/ CliFetch({})
    \/ CliRun
    \/ HtmlRun

SpecRecords == InitWeeks /\ [][NextRecords]_vars

RECURSIVE SumOver(_, _)
SumOver(f, S) ==
    IF S = {} THEN 0
    ELSE LET x == CHOOSE y \in S : TRUE IN f[x] + SumOver(f, S \ {x})

\* The sum of the counts of a distribution.
Total(f) == SumOver(f, DOMAIN f)

\* The sum of the cells of a matrix.
CellSum(z) == SumOver([h \in DOMAIN z |-> Total(z[h])], DOMAIN z)

\* C28: the cells of the heatmap of a run, and of the heatmap the report's
\* script draws, add up to the number of usage events with a valid instant in
\* the range, an event without id included.
C28_HeatmapSum ==
    /\ (pc = "done" /\ ~IsEmpty(WauInput)) =>
          CellSum(figs.heatmap.z) = Cardinality(ValidInRange)
    /\ pc = "plotted" => CellSum(html.heatmap) = Len(html.usage_records)

\* The events in the range that belong to the accounts of a site code.
EventsOfSite(code) ==
    {i \in ValidInRange :
        LET a == tables.usage[i]["account"]
        IN  IF a \in DOMAIN site_code_map THEN site_code_map[a] = code
            ELSE code = "Unknown"}

C30_SameFeatures ==
    pc = "plotted" => html.features = figs.features

====
